---------------------------- MODULE Spec2Model ----------------------------
(***************************************************************************)
(* Model of the fetch server of src/src/mcp_server_fetch/server.py: the    *)
(* call_tool and get_prompt handlers, the robots.txt check, fetch_url and  *)
(* the windowing of the fetched content.                                   *)
(*                                                                         *)
(* Text is modelled as a sequence of one-character strings, so len(),      *)
(* slicing, the "in" test and string concatenation are computed as Python  *)
(* computes them.                                                          *)
(***************************************************************************)
EXTENDS Integers, Sequences, FiniteSets, TLC

VARIABLES
    \* configuration of serve(), fixed at startup
    ignore_robots_txt, custom_user_agent,
    \* one entry per handler invocation in flight
    handler, pc, arguments, robots_response, response, net, outcome,
    \* a client that pages through one document with the fetch tool
    pgActive, pgContent, pgMaxLength, pgStart, pgOut, pgCalls, pgSlices, pgChain

configVars == <<ignore_robots_txt, custom_user_agent>>
reqVars == <<handler, pc, arguments, robots_response, response, net, outcome>>
pageVars == <<pgActive, pgContent, pgMaxLength, pgStart, pgOut, pgCalls, pgSlices, pgChain>>
vars == <<configVars, reqVars, pageVars>>

Min(a, b) == IF a < b THEN a ELSE b

--------------------------------------------------------------------------
(* Text *)

NoMoreContent ==
    <<"<","e","r","r","o","r",">","N","o"," ","m","o","r","e"," ","c","o","n","t","e","n",
      "t"," ","a","v","a","i","l","a","b","l","e",".","<","/","e","r","r","o","r",">">>

SimplifyFailed ==
    <<"<","e","r","r","o","r",">","P","a","g","e"," ","f","a","i","l","e","d"," ","t","o",
      " ","b","e"," ","s","i","m","p","l","i","f","i","e","d"," ","f","r","o","m"," ","H",
      "T","M","L","<","/","e","r","r","o","r",">">>

HintHead ==
    <<"\n","\n","<","e","r","r","o","r",">","C","o","n","t","e","n","t"," ","t","r","u",
      "n","c","a","t","e","d","."," ","C","a","l","l"," ","t","h","e"," ","f","e","t","c",
      "h"," ","t","o","o","l"," ","w","i","t","h"," ","a"," ","s","t","a","r","t","_","i",
      "n","d","e","x"," ","o","f"," ">>

HintTail ==
    <<" ","t","o"," ","g","e","t"," ","m","o","r","e"," ","c","o","n","t","e","n","t",".",
      "<","/","e","r","r","o","r",">">>

RawNoticeHead ==
    <<"C","o","n","t","e","n","t"," ","t","y","p","e"," ">>

RawNoticeTail ==
    <<" ","c","a","n","n","o","t"," ","b","e"," ","s","i","m","p","l","i","f","i","e","d",
      " ","t","o"," ","m","a","r","k","d","o","w","n",","," ","b","u","t"," ","h","e","r",
      "e"," ","i","s"," ","t","h","e"," ","r","a","w"," ","c","o","n","t","e","n","t",":",
      "\n">>

HtmlTag ==
    <<"<","h","t","m","l">>

TextHtml ==
    <<"t","e","x","t","/","h","t","m","l">>

TextHtmlUtf8 ==
    <<"t","e","x","t","/","h","t","m","l",";"," ","c","h","a","r","s","e","t","=","u","t",
      "f","-","8">>

AppJson ==
    <<"a","p","p","l","i","c","a","t","i","o","n","/","j","s","o","n">>

UpperTextHtml ==
    <<"T","E","X","T","/","H","T","M","L">>

\* s[a:b] of Python for 0 <= a, 0 <= b
Slice(s, a, b) == SubSeq(s, a + 1, Min(b, Len(s)))

\* "pat in s" of Python
Contains(s, pat) ==
    \E i \in 1..(Len(s) - Len(pat) + 1) : SubSeq(s, i, i + Len(pat) - 1) = pat

EndsWith(s, suf) ==
    Len(s) >= Len(suf) /\ SubSeq(s, Len(s) - Len(suf) + 1, Len(s)) = suf

Digits == <<"0", "1", "2", "3", "4", "5", "6", "7", "8", "9">>

\* str(n) for n >= 0, as the f-string of the hint formats next_start
RECURSIVE ToDecimal(_)
ToDecimal(n) ==
    IF n < 10 THEN <<Digits[n + 1]>>
    ELSE ToDecimal(n \div 10) \o <<Digits[(n % 10) + 1]>>

DigitValue(c) == CHOOSE d \in 0..9 : Digits[d + 1] = c

IsDigits(s) == Len(s) > 0 /\ \A i \in 1..Len(s) : \E d \in 1..10 : Digits[d] = s[i]

\* int(s) for a string of decimal digits
RECURSIVE FromDecimal(_)
FromDecimal(s) ==
    IF Len(s) = 1 THEN DigitValue(s[1])
    ELSE 10 * FromDecimal(SubSeq(s, 1, Len(s) - 1)) + DigitValue(s[Len(s)])

\* the continuation hint of call_tool
HintText(next_start) == HintHead \o ToDecimal(next_start) \o HintTail

--------------------------------------------------------------------------
(* Windowing of the content in call_tool *)

WindowHintAtEnd(content, start_index, max_length) ==
    LET original_length == Len(content)
        truncated_content == Slice(content, start_index, start_index + max_length)
    IN  IF start_index >= original_length THEN NoMoreContent
        ELSE IF truncated_content = <<>> THEN NoMoreContent
        ELSE IF Len(truncated_content) = max_length
                /\ original_length - (start_index + Len(truncated_content)) >= 0
             THEN truncated_content \o HintText(start_index + Len(truncated_content))
             ELSE truncated_content

WindowEmptySlice(content, start_index, max_length) ==
    LET original_length == Len(content)
        truncated_content == Slice(content, start_index, start_index + max_length)
    IN  IF original_length - (start_index + Len(truncated_content)) > 0
        THEN truncated_content \o HintText(start_index + Len(truncated_content))
        ELSE truncated_content

WindowNextFromSlice(content, start_index, max_length) ==
    LET original_length == Len(content)
        truncated_content == Slice(content, start_index, start_index + max_length)
    IN  IF start_index >= original_length THEN NoMoreContent
        ELSE IF truncated_content = <<>> THEN NoMoreContent
        ELSE IF Len(truncated_content) = max_length
                /\ original_length - (start_index + Len(truncated_content)) > 0
             THEN truncated_content \o HintText(Len(truncated_content))
             ELSE truncated_content

\* server.py 307-330: the text call_tool puts after "Contents of <url>:"
Window(content, start_index, max_length) ==
    LET original_length == Len(content)
        truncated_content == Slice(content, start_index, start_index + max_length)
        actual_content_length == Len(truncated_content)
        remaining_content == original_length - (start_index + actual_content_length)
    IN  IF start_index >= original_length THEN NoMoreContent
        ELSE IF truncated_content = <<>> THEN NoMoreContent
        ELSE IF actual_content_length = max_length /\ remaining_content > 0
             THEN truncated_content \o HintText(start_index + actual_content_length)
             ELSE truncated_content

--------------------------------------------------------------------------
(* A client paging through one document *)

MaxContentLen == 4
MaxLongLen == 14
MaxMaxLength == 4
MaxStartIndex == 15
MaxCalls == 16

Alphabet == {"a", "b"}

TextsUpTo(n) == UNION {[1..k -> Alphabet] : k \in 0..n}

Letters == <<"c", "d", "e", "f", "g", "h", "i", "j", "k", "l", "m", "n", "o", "p", "q", "r">>

\* a text of n characters, neighbours distinct
LongText(n) == [i \in 1..n |-> Letters[((i - 1) % Len(Letters)) + 1]]

\* every short text over Alphabet, and one text of each greater length
Documents == TextsUpTo(MaxContentLen) \cup {LongText(n) : n \in (MaxContentLen + 1)..MaxLongLen}

\* whether the hint of call_tool starts at position i of text and ends it
IsHintAt(text, i) ==
    LET from == i + Len(HintHead)
        to == Len(text) - Len(HintTail)
    IN  /\ from <= to
        /\ EndsWith(text, HintTail)
        /\ SubSeq(text, i, from - 1) = HintHead
        /\ IsDigits(SubSeq(text, from, to))

HasHint(text) == \E i \in 1..Len(text) : IsHintAt(text, i)

HintPos(text) == CHOOSE i \in 1..Len(text) : IsHintAt(text, i)

\* the start_index the hint names, as its reader parses it
HintIn(text) ==
    IF HasHint(text)
    THEN FromDecimal(SubSeq(text, HintPos(text) + Len(HintHead), Len(text) - Len(HintTail)))
    ELSE -1

\* the text before the hint
BeforeHint(text) == IF HasHint(text) THEN SubSeq(text, 1, HintPos(text) - 1) ELSE text

PageCall(start) ==
    LET out == Window(pgContent, start, pgMaxLength)
    IN  /\ pgStart' = start
        /\ pgOut' = out
        /\ pgCalls' = pgCalls + 1
        /\ pgSlices' = IF out = NoMoreContent THEN pgSlices
                       ELSE pgSlices \o BeforeHint(out)
        /\ UNCHANGED <<pgActive, pgContent, pgMaxLength>>

\* the first call of a session, at any start_index the schema admits
FirstCall(start) ==
    /\ pgActive
    /\ pgCalls = 0
    /\ PageCall(start)
    /\ pgChain' = (start = 0)
    /\ UNCHANGED <<configVars, reqVars>>

\* the caller does what the hint says: it calls again with the start_index named
FollowHint ==
    /\ pgActive
    /\ pgCalls > 0
    /\ pgCalls < MaxCalls
    /\ HasHint(pgOut)
    /\ PageCall(HintIn(pgOut))
    /\ UNCHANGED pgChain
    /\ UNCHANGED <<configVars, reqVars>>

PageIdle ==
    /\ pgActive = FALSE
    /\ pgContent = <<>>
    /\ pgMaxLength = 1
    /\ pgStart = 0
    /\ pgOut = <<>>
    /\ pgCalls = 0
    /\ pgSlices = <<>>
    /\ pgChain = FALSE

PageInit ==
    /\ pgContent \in Documents
    /\ pgActive = TRUE
    /\ pgMaxLength \in 1..MaxMaxLength
    /\ pgStart = 0
    /\ pgOut = <<>>
    /\ pgCalls = 0
    /\ pgSlices = <<>>
    /\ pgChain = FALSE

--------------------------------------------------------------------------
(* URLs, user agents and HTTP messages *)

NumRequests == 2

Requests == 1..NumRequests

DEFAULT_USER_AGENT_AUTONOMOUS == 
    "ModelContextProtocol/1.0 (Autonomous; +https://github.com/modelcontextprotocol/servers)"
DEFAULT_USER_AGENT_MANUAL == 
    "ModelContextProtocol/1.0 (User-Specified; +https://github.com/modelcontextprotocol/servers)"

\* "custom_user_agent or DEFAULT": None and the empty string both take the default
user_agent_autonomous ==
    IF custom_user_agent # "" THEN custom_user_agent ELSE DEFAULT_USER_AGENT_AUTONOMOUS

user_agent_manual ==
    IF custom_user_agent # "" THEN custom_user_agent ELSE DEFAULT_USER_AGENT_MANUAL

Url(path, query) == [scheme |-> "http", netloc |-> "a", path |-> path, query |-> query]

\* no url given: str() of it is empty
NoUrl == [scheme |-> "", netloc |-> "", path |-> <<>>, query |-> ""]

\* urlunparse((scheme, netloc, "/robots.txt", "", "", ""))
get_robots_txt_url(url) ==
    [scheme |-> url.scheme, netloc |-> url.netloc, path |-> <<"robots.txt">>, query |-> ""]

Get(purpose, url, user_agent) ==
    [purpose |-> purpose, url |-> url, user_agent |-> user_agent]

NoResponse == [kind |-> "none", status |-> 0, has_content_type |-> FALSE,
               content_type |-> <<>>, text |-> <<>>]

HttpError == [kind |-> "error", status |-> 0, has_content_type |-> FALSE,
              content_type |-> <<>>, text |-> <<>>]

Http(status, has_content_type, content_type, text) ==
    [kind |-> "http", status |-> status, has_content_type |-> has_content_type,
     content_type |-> content_type, text |-> text]

--------------------------------------------------------------------------
(* robots.txt: a text is a sequence of lines; a line is its leading blanks, *)
(* whether its first other character is "#", and the directive it spells    *)

Line(indent, hash, field, agent, path) ==
    [indent |-> indent, hash |-> hash, field |-> field, agent |-> agent, path |-> path]

UserAgentLine(agent) == Line(0, FALSE, "user-agent", agent, <<>>)
DisallowLine(path) == Line(0, FALSE, "disallow", "", path)
AllowLine(path) == Line(0, FALSE, "allow", "", path)
Commented(indent, line) == [line EXCEPT !.indent = indent, !.hash = TRUE]

\* line.strip().startswith("#")
IsCommentLine(line) == line.hash

\* "\n".join(line for line in robot_txt.splitlines() if not line.strip().startswith("#"))
StripCommentLines(robot_txt) == SelectSeq(robot_txt, LAMBDA line : ~IsCommentLine(line))

\* the product token a User-agent line is matched against
ProductToken(user_agent) ==
    IF user_agent \in {DEFAULT_USER_AGENT_AUTONOMOUS, DEFAULT_USER_AGENT_MANUAL}
    THEN "modelcontextprotocol"
    ELSE "custombot"

IsPrefix(p, s) == Len(p) <= Len(s) /\ SubSeq(s, 1, Len(p)) = p

\* the User-agent lines of the group that line i of txt belongs to: the run of
\* User-agent lines that most nearly precedes it
RECURSIVE GroupAgents(_, _, _)
GroupAgents(txt, i, inRules) ==
    IF i = 0 THEN {}
    ELSE IF txt[i].hash THEN GroupAgents(txt, i - 1, inRules)
    ELSE IF txt[i].field = "user-agent"
         THEN {txt[i].agent} \cup GroupAgents(txt, i - 1, FALSE)
    ELSE IF inRules THEN GroupAgents(txt, i - 1, TRUE)
    ELSE {}

RuleAgents(txt, i) == GroupAgents(txt, i - 1, TRUE)

\* Protego.parse(txt).can_fetch(url, user_agent): the rules of the groups naming
\* the agent's product, else those of the "*" groups; the longest matching rule
\* decides, Allow before Disallow, and no matching rule allows
can_fetch(txt, url, user_agent) ==
    LET rules == {i \in 1..Len(txt) : ~txt[i].hash /\ txt[i].field \in {"allow", "disallow"}}
        named == {i \in rules : ProductToken(user_agent) \in RuleAgents(txt, i)}
        star == {i \in rules : "*" \in RuleAgents(txt, i)}
        mine == IF named # {} THEN named ELSE star
        hits == {i \in mine : IsPrefix(txt[i].path, url.path)}
        best == {i \in hits : \A j \in hits : Len(txt[j].path) <= Len(txt[i].path)}
    IN  hits = {} \/ \E i \in best : txt[i].field = "allow"

--------------------------------------------------------------------------
(* check_may_autonomously_fetch_url, after the GET of robots.txt returned *)

RobotsVerdictOnly403(robots, url, user_agent) ==
    IF robots.kind = "error" THEN "connection"
    ELSE IF robots.status = 403 THEN "status"
    ELSE IF 400 <= robots.status /\ robots.status < 500 THEN "allowed"
    ELSE IF ~can_fetch(StripCommentLines(robots.text), url, user_agent) THEN "disallowed"
    ELSE "allowed"

\* server.py 100-137: "connection", "status" and "disallowed" raise McpError
RobotsVerdict(robots, url, user_agent) ==
    IF robots.kind = "error" THEN "connection"
    ELSE IF robots.status \in {401, 403} THEN "status"
    ELSE IF 400 <= robots.status /\ robots.status < 500 THEN "allowed"
    ELSE IF ~can_fetch(StripCommentLines(robots.text), url, user_agent) THEN "disallowed"
    ELSE "allowed"

--------------------------------------------------------------------------
(* fetch_url, after the GET of the page returned *)

HtmlSniffLen == 100

\* whether character i of html lies in a tag: after a "<" with no ">" in between
InTag(html, i) ==
    \/ html[i] = "<"
    \/ \E j \in 1..(i - 1) : html[j] = "<" /\ \A k \in (j + 1)..(i - 1) : html[k] # ">"

\* the text of html outside its tags
TextOutsideTags(html) ==
    LET kept == SelectSeq([i \in 1..Len(html) |-> i], LAMBDA i : ~InTag(html, i))
    IN  [n \in 1..Len(kept) |-> html[kept[n]]]

\* server.py 33-59: the readable text of the page, or the sentinel when there is none
extract_content_from_html(html) ==
    LET content == TextOutsideTags(html)
    IN  IF content = <<>> THEN SimplifyFailed ELSE content

\* response.headers.get("content-type", "")
ContentTypeOf(resp) == IF resp.has_content_type THEN resp.content_type ELSE <<>>

is_page_html_whole_body(resp) ==
    \/ Contains(resp.text, HtmlTag)
    \/ Contains(ContentTypeOf(resp), TextHtml)
    \/ ContentTypeOf(resp) = <<>>

\* server.py 175-178
is_page_html(resp) ==
    \/ Contains(Slice(resp.text, 0, HtmlSniffLen), HtmlTag)
    \/ Contains(ContentTypeOf(resp), TextHtml)
    \/ ContentTypeOf(resp) = <<>>

RawNotice(resp) == RawNoticeHead \o ContentTypeOf(resp) \o RawNoticeTail

ShouldSimplifyIgnoringRaw(resp, force_raw) == is_page_html(resp)

\* server.py 181: the branch of fetch_url that simplifies
ShouldSimplify(resp, force_raw) == is_page_html(resp) /\ ~force_raw

\* server.py 151-193: fetch_url's result, "raised" when it raises McpError
fetch_url(resp, force_raw) ==
    IF resp.kind = "error"
    THEN [raised |-> TRUE, reason |-> "fetch_connection", content |-> <<>>,
          prefix |-> <<>>, is_page_html |-> FALSE, simplified |-> FALSE]
    ELSE IF resp.status >= 400
    THEN [raised |-> TRUE, reason |-> "fetch_status", content |-> <<>>,
          prefix |-> <<>>, is_page_html |-> FALSE, simplified |-> FALSE]
    ELSE IF ShouldSimplify(resp, force_raw)
    THEN [raised |-> FALSE, reason |-> "", content |-> extract_content_from_html(resp.text),
          prefix |-> <<>>, is_page_html |-> is_page_html(resp), simplified |-> TRUE]
    ELSE [raised |-> FALSE, reason |-> "", content |-> resp.text,
          prefix |-> RawNotice(resp), is_page_html |-> is_page_html(resp),
          simplified |-> FALSE]

--------------------------------------------------------------------------
(* The arguments of a call and the Fetch model that validates them *)

DefaultMaxLength == 5000
MaxLengthLimit == 1000000

Arguments(url_kind, url, has_max_length, max_length, has_start_index, start_index, has_raw, raw) ==
    [url_kind |-> url_kind, url |-> url,
     has_max_length |-> has_max_length, max_length |-> max_length,
     has_start_index |-> has_start_index, start_index |-> start_index,
     has_raw |-> has_raw, raw |-> raw]

NoArguments == Arguments("missing", NoUrl, FALSE, 0, FALSE, 0, FALSE, FALSE)

FetchValidNoUpperLimit(a) ==
    /\ a.url_kind = "url"
    /\ a.has_max_length => a.max_length > 0
    /\ a.has_start_index => a.start_index >= 0

\* server.py 199-216: url is an AnyUrl, max_length gt=0 lt=1000000, start_index ge=0
FetchValid(a) ==
    /\ a.url_kind = "url"
    /\ a.has_max_length => (a.max_length > 0 /\ a.max_length < MaxLengthLimit)
    /\ a.has_start_index => a.start_index >= 0

\* server.py 196-223: Fetch(**arguments), with the defaults of the absent fields
Fetch(a) ==
    [valid |-> FetchValid(a),
     url |-> a.url,
     max_length |-> IF a.has_max_length THEN a.max_length ELSE DefaultMaxLength,
     start_index |-> IF a.has_start_index THEN a.start_index ELSE 0,
     raw |-> IF a.has_raw THEN a.raw ELSE FALSE]

--------------------------------------------------------------------------
(* What a handler returns or raises *)

NoOutcome ==
    [kind |-> "none", code |-> "", reason |-> "", description |-> "",
     prefix |-> <<>>, page |-> <<>>, content |-> <<>>,
     is_page_html |-> FALSE, simplified |-> FALSE]

\* raise McpError(ErrorData(code=..., message=...))
McpError(code, reason) == [NoOutcome EXCEPT !.kind = "error", !.code = code, !.reason = reason]

\* server.py 333: [TextContent(text=f"{prefix}Contents of {url}:\n{content}")]
ToolResult(f, content) ==
    [NoOutcome EXCEPT !.kind = "result", !.description = "Contents of",
                      !.prefix = f.prefix, !.page = f.content, !.content = content,
                      !.is_page_html = f.is_page_html, !.simplified = f.simplified]

\* server.py 360-367: GetPromptResult(description=f"Contents of {url}", text=prefix + content)
PromptResult(f) ==
    [NoOutcome EXCEPT !.kind = "prompt", !.description = "Contents of",
                      !.prefix = f.prefix, !.page = f.content, !.content = f.content,
                      !.is_page_html = f.is_page_html, !.simplified = f.simplified]

\* server.py 349-359: GetPromptResult(description=f"Failed to fetch {url}", text=str(e))
PromptFailure(f) ==
    [NoOutcome EXCEPT !.kind = "prompt", !.description = "Failed to fetch",
                      !.code = "INTERNAL_ERROR", !.reason = f.reason]

--------------------------------------------------------------------------
(* call_tool *)

Step(pc_, gets, outcome_) == [pc |-> pc_, gets |-> gets, outcome |-> outcome_]

\* server.py 286-306: up to the first await, the GET of robots.txt or of the page
ToolStart(a) ==
    LET args == Fetch(a)
    IN  IF ~args.valid
        THEN Step("raised", <<>>, McpError("INVALID_PARAMS", "invalid_arguments"))
        \* "if not url": str(args.url) is the empty string
        ELSE IF args.url.scheme = "" /\ args.url.netloc = ""
        THEN Step("raised", <<>>, McpError("INVALID_PARAMS", "url_required"))
        ELSE IF ~ignore_robots_txt
        THEN Step("robots_get",
                  <<Get("robots", get_robots_txt_url(args.url), user_agent_autonomous)>>,
                  NoOutcome)
        ELSE Step("resource_get",
                  <<Get("resource", args.url, user_agent_autonomous)>>, NoOutcome)

ToolAfterRobotsFetchAnyway(a, robots) ==
    IF robots.kind = "error"
    THEN Step("raised", <<>>, McpError("INTERNAL_ERROR", "connection"))
    ELSE Step("resource_get",
              <<Get("resource", Fetch(a).url, user_agent_autonomous)>>, NoOutcome)

\* server.py 302-304: the rest of the robots check, then the GET of the page
ToolAfterRobots(a, robots) ==
    LET args == Fetch(a)
        verdict == RobotsVerdict(robots, args.url, user_agent_autonomous)
    IN  IF verdict # "allowed"
        THEN Step("raised", <<>>, McpError("INTERNAL_ERROR", verdict))
        ELSE Step("resource_get",
                  <<Get("resource", args.url, user_agent_autonomous)>>, NoOutcome)

ToolAfterResourceErrorAsContent(a, resp) ==
    LET f == fetch_url(resp, Fetch(a).raw)
    IN  Step("returned", <<>>,
             ToolResult(f, Window(f.content, Fetch(a).start_index, Fetch(a).max_length)))

\* server.py 304-333: the rest of fetch_url, then the window
ToolAfterResource(a, resp) ==
    LET args == Fetch(a)
        f == fetch_url(resp, args.raw)
    IN  IF f.raised
        THEN Step("raised", <<>>, McpError("INTERNAL_ERROR", f.reason))
        ELSE Step("returned", <<>>,
                  ToolResult(f, Window(f.content, args.start_index, args.max_length)))

--------------------------------------------------------------------------
(* get_prompt *)

\* server.py 336-346: up to the await, the GET of the page
PromptStart(a) ==
    IF a.url_kind = "missing"
    THEN Step("raised", <<>>, McpError("INVALID_PARAMS", "url_required"))
    ELSE Step("resource_get", <<Get("resource", a.url, user_agent_manual)>>, NoOutcome)

\* server.py 345-367: fetch_url's McpError is caught and returned as a prompt
PromptAfterResource(a, resp) ==
    LET f == fetch_url(resp, FALSE)
    IN  IF f.raised
        THEN Step("returned", <<>>, PromptFailure(f))
        ELSE Step("returned", <<>>, PromptResult(f))

--------------------------------------------------------------------------
(* The handlers as steps between awaits *)

Advance(r, step) ==
    /\ pc' = [pc EXCEPT ![r] = step.pc]
    /\ net' = [net EXCEPT ![r] = @ \o step.gets]
    /\ outcome' = [outcome EXCEPT ![r] = step.outcome]

\* the response the handler of r reads when its GET of the page returns
ReadResponseOfFirst(r) == response'[1]

ReadResponse(r) == response'[r]

CallTool(r, a) ==
    /\ pc[r] = "idle"
    /\ handler' = [handler EXCEPT ![r] = "call_tool"]
    /\ arguments' = [arguments EXCEPT ![r] = a]
    /\ Advance(r, ToolStart(a))
    /\ UNCHANGED <<configVars, robots_response, response, pageVars>>

GetPrompt(r, a) ==
    /\ pc[r] = "idle"
    /\ handler' = [handler EXCEPT ![r] = "get_prompt"]
    /\ arguments' = [arguments EXCEPT ![r] = a]
    /\ Advance(r, PromptStart(a))
    /\ UNCHANGED <<configVars, robots_response, response, pageVars>>

RobotsReturns(r, robots) ==
    /\ pc[r] = "robots_get"
    /\ robots_response' = [robots_response EXCEPT ![r] = robots]
    /\ Advance(r, ToolAfterRobots(arguments[r], robots))
    /\ UNCHANGED <<configVars, handler, arguments, response, pageVars>>

ResourceReturns(r, resp) ==
    /\ pc[r] = "resource_get"
    /\ response' = [response EXCEPT ![r] = resp]
    /\ Advance(r, IF handler[r] = "call_tool"
                  THEN ToolAfterResource(arguments[r], ReadResponse(r))
                  ELSE PromptAfterResource(arguments[r], ReadResponse(r)))
    /\ UNCHANGED <<configVars, handler, arguments, robots_response, pageVars>>

--------------------------------------------------------------------------
(* Inputs *)

MaxArgLength == 2
MaxArgStart == 3

PageUrl == Url(<<"page">>, "q=1")
PrivateUrl == Url(<<"private", "doc">>, "")

\* every valid combination of url, max_length, start_index and raw
CoreToolArguments ==
    {Arguments("url", u, TRUE, m, TRUE, s, TRUE, w) :
        u \in {PageUrl, PrivateUrl}, m \in 1..MaxArgLength, s \in 0..MaxArgStart,
        w \in BOOLEAN}

BaseArguments == Arguments("url", PageUrl, TRUE, 1, TRUE, 0, TRUE, FALSE)

\* absent fields, and the values at and beyond the limits of the schema
EdgeToolArguments ==
    {[BaseArguments EXCEPT !.has_max_length = FALSE, !.max_length = 0],
     [BaseArguments EXCEPT !.has_start_index = FALSE],
     [BaseArguments EXCEPT !.has_raw = FALSE],
     [BaseArguments EXCEPT !.url_kind = "missing", !.url = NoUrl],
     [BaseArguments EXCEPT !.url_kind = "malformed", !.url = NoUrl],
     [BaseArguments EXCEPT !.start_index = -1],
     [BaseArguments EXCEPT !.url = Url(<<"robots.txt">>, "")]}
        \cup {[BaseArguments EXCEPT !.max_length = m] :
                 m \in {-1, 0, MaxLengthLimit - 1, MaxLengthLimit, MaxLengthLimit + 1}}

ToolArguments == CoreToolArguments \cup EdgeToolArguments

PromptArguments ==
    {Arguments(u[1], u[2], FALSE, 0, FALSE, 0, FALSE, FALSE) :
        u \in {<<"url", PageUrl>>, <<"missing", NoUrl>>}}

AllowAllTxt == <<>>
DenyAllTxt == <<Commented(0, AllowLine(<<>>)), UserAgentLine("*"), DisallowLine(<<>>)>>
DenyPrivateTxt == <<UserAgentLine("*"), DisallowLine(<<"private">>)>>
DenyPageToServerTxt ==
    <<UserAgentLine("modelcontextprotocol"), DisallowLine(<<"page">>),
      UserAgentLine("*"), AllowLine(<<>>)>>
AllowPageOnlyTxt ==
    <<UserAgentLine("*"), Commented(1, DisallowLine(<<"page">>)), AllowLine(<<"page">>),
      DisallowLine(<<>>)>>
DenyCustomTxt == <<UserAgentLine("custombot"), DisallowLine(<<>>)>>

RobotsTexts ==
    {AllowAllTxt, DenyAllTxt, DenyPrivateTxt, DenyPageToServerTxt, AllowPageOnlyTxt,
     DenyCustomTxt}

RobotsResponses ==
    {HttpError}
        \cup {Http(200, TRUE, <<>>, t) : t \in RobotsTexts}
        \cup {Http(s, TRUE, <<>>, t) :
                 s \in {399, 400, 401, 403, 404, 499, 500}, t \in {AllowAllTxt, DenyAllTxt}}

Pad(n) == [i \in 1..n |-> "x"]

HtmlAb == HtmlTag \o <<">", "a", "b">>

Bodies ==
    {<<>>, <<"a", "b", "c">>, HtmlAb, HtmlTag \o <<">", "<", "/", "p", ">">>,
     <<"<", "H", "T", "M", "L", ">", "a", "b">>,
     Pad(HtmlSniffLen - Len(HtmlTag)) \o HtmlAb,
     Pad(HtmlSniffLen - Len(HtmlTag) + 1) \o HtmlAb,
     Pad(HtmlSniffLen + 1) \o HtmlAb}

ContentTypes ==
    {<<FALSE, <<>>>>, <<TRUE, <<>>>>, <<TRUE, TextHtml>>, <<TRUE, TextHtmlUtf8>>,
     <<TRUE, AppJson>>, <<TRUE, UpperTextHtml>>}

ResourceResponses ==
    {HttpError}
        \cup {Http(200, c[1], c[2], b) : c \in ContentTypes, b \in Bodies}
        \cup {Http(s, TRUE, AppJson, <<"a", "b", "c">>) : s \in {399, 400, 404, 500}}

\* the inputs of the runs with several handlers in flight
FewToolArguments ==
    {Arguments("url", PageUrl, TRUE, 2, FALSE, 0, FALSE, FALSE),
     Arguments("url", PageUrl, TRUE, 2, TRUE, 3, TRUE, TRUE),
     Arguments("missing", NoUrl, FALSE, 0, FALSE, 0, FALSE, FALSE),
     Arguments("url", PageUrl, TRUE, 0, FALSE, 0, FALSE, FALSE)}

FewRobotsResponses ==
    {HttpError, Http(403, TRUE, <<>>, AllowAllTxt), Http(404, TRUE, <<>>, DenyAllTxt),
     Http(200, TRUE, <<>>, DenyPrivateTxt), Http(200, TRUE, <<>>, DenyAllTxt)}

FewResourceResponses ==
    {HttpError, Http(404, TRUE, TextHtml, HtmlAb), Http(200, TRUE, TextHtml, HtmlAb),
     Http(200, TRUE, AppJson, <<"a", "b", "c">>)}

--------------------------------------------------------------------------
(* Specifications *)

ConfigInit ==
    /\ ignore_robots_txt \in BOOLEAN
    /\ custom_user_agent \in {"", "custombot/1.0"}

ReqInit ==
    /\ handler = [r \in Requests |-> "none"]
    /\ pc = [r \in Requests |-> "idle"]
    /\ arguments = [r \in Requests |-> NoArguments]
    /\ robots_response = [r \in Requests |-> NoResponse]
    /\ response = [r \in Requests |-> NoResponse]
    /\ net = [r \in Requests |-> <<>>]
    /\ outcome = [r \in Requests |-> NoOutcome]

\* several handlers in flight, interleaving at their awaits
Init == ConfigInit /\ ReqInit /\ PageIdle

Next ==
    \E r \in Requests :
        \/ \E a \in FewToolArguments : CallTool(r, a)
        \/ \E a \in PromptArguments : GetPrompt(r, a)
        \/ \E robots \in FewRobotsResponses : RobotsReturns(r, robots)
        \/ \E resp \in FewResourceResponses : ResourceReturns(r, resp)

Spec == Init /\ [][Next]_vars

\* one handler, over all the inputs
OneInit == ConfigInit /\ ReqInit /\ PageIdle

OneNext ==
    \/ \E a \in ToolArguments : CallTool(1, a)
    \/ \E a \in PromptArguments : GetPrompt(1, a)
    \/ \E robots \in RobotsResponses : RobotsReturns(1, robots)
    \/ \E resp \in ResourceResponses : ResourceReturns(1, resp)

SpecOne == OneInit /\ [][OneNext]_vars

\* a client paging through one document
PagingInit ==
    /\ ignore_robots_txt = FALSE
    /\ custom_user_agent = ""
    /\ ReqInit
    /\ PageInit

PagingNext ==
    \/ \E start \in 0..MaxStartIndex : FirstCall(start)
    \/ FollowHint

SpecPaging == PagingInit /\ [][PagingNext]_vars

--------------------------------------------------------------------------
(* Properties *)

Ceil(a, b) == (a + b - 1) \div b

Finished(r) == pc[r] \in {"returned", "raised"}

GetsFor(r, purpose) == {i \in 1..Len(net[r]) : net[r][i].purpose = purpose}

PgSlice == Slice(pgContent, pgStart, pgStart + pgMaxLength)

PgMore == pgStart + pgMaxLength < Len(pgContent)

\* C1: after any call of the window with start_index >= 0 and max_length > 0, the
\* returned text carries the truncation hint if and only if the slice
\* content[start_index : start_index + max_length] has exactly max_length characters
\* and start_index + max_length < len(content); the hint then follows the slice and
\* names start_index + max_length; a slice shorter than max_length has no hint.
C1_HintIffFullSliceAndMore ==
    pgCalls > 0 =>
        /\ HasHint(pgOut) <=> (Len(PgSlice) = pgMaxLength /\ PgMore)
        /\ HasHint(pgOut) =>
              /\ pgOut = PgSlice \o HintText(pgStart + pgMaxLength)
              /\ HintIn(pgOut) = pgStart + pgMaxLength
        /\ Len(PgSlice) < pgMaxLength => pgOut \in {PgSlice, NoMoreContent}

\* a call from the middle of a document that returned a full slice with a hint
C1_Witness == pgCalls > 0 /\ pgStart > 0 /\ HasHint(pgOut) /\ HintIn(pgOut) >= 10

\* the page text that fetch_url hands to the window of request r
PageOf(r) == fetch_url(response[r], Fetch(arguments[r]).raw).content

Fetched(r) == response[r].kind = "http" /\ response[r].status < 400

\* C2: a fetch tool call whose page was fetched and whose start_index is at or
\* beyond the length of the content (the empty content included) returns normally,
\* and its content is exactly the "No more content available" sentinel.
C2_OutOfRangeIsSentinel ==
    \A r \in Requests :
        (/\ handler[r] = "call_tool"
         /\ Fetched(r)
         /\ Fetch(arguments[r]).start_index >= Len(PageOf(r)))
        => /\ pc[r] = "returned"
           /\ outcome[r].kind = "result"
           /\ outcome[r].content = NoMoreContent

\* a call at start_index 0 on a page that is the empty text
C2_Witness ==
    \E r \in Requests :
        /\ handler[r] = "call_tool"
        /\ Fetched(r)
        /\ PageOf(r) = <<>>
        /\ Fetch(arguments[r]).start_index >= Len(PageOf(r))
        /\ pc[r] = "returned"

\* C3 (a GET is told apart by the step that issues it, the robots check or fetch_url):
\* in a fetch tool call with robots enforcement, the GET of the page is issued
\* only after the GET of robots.txt, and only once the robots check has ended with
\* "allowed"; a failed check leaves the call with no GET of the page; without
\* enforcement the call issues no GET for robots.txt; a result is returned only after
\* the page's GET has been answered.
C3_PolicyCheckBeforeFetch ==
    \A r \in Requests :
        handler[r] = "call_tool" =>
            LET robots == GetsFor(r, "robots")
                pages == GetsFor(r, "resource")
                url == Fetch(arguments[r]).url
                verdict == RobotsVerdict(robots_response[r], url, user_agent_autonomous)
            IN  /\ ignore_robots_txt => robots = {}
                /\ \A i \in robots : net[r][i].url = get_robots_txt_url(url)
                /\ \A i \in pages : net[r][i].url = url
                /\ ~ignore_robots_txt =>
                      /\ pages # {} =>
                            /\ robots # {}
                            /\ \A i \in robots, j \in pages : i < j
                            /\ robots_response[r].kind = "http"
                            /\ verdict = "allowed"
                      /\ (robots_response[r].kind # "none" /\ verdict # "allowed") =>
                            (pages = {} /\ pc[r] = "raised")
                /\ outcome[r].kind = "result" => (pages # {} /\ response[r].kind = "http")

\* an enforced call that went through the robots check and then fetched the page
C3_Witness ==
    \E r \in Requests :
        /\ handler[r] = "call_tool"
        /\ ~ignore_robots_txt
        /\ pc[r] = "returned"
        /\ Len(net[r]) = 2

RobotsDenied(r) == pc[r] = "raised" /\ outcome[r].reason \in {"status", "disallowed"}

\* the call went on from the robots check to the GET of the page
RobotsPassed(r) == GetsFor(r, "resource") # {}

\* C4: once robots.txt has been answered with a status: 401 and 403 deny whatever the
\* body says; the other statuses 400..499 allow whatever the body says; every other
\* status denies exactly when the rules of the body without its comment lines
\* disallow the URL for the user agent, and lets the call go on otherwise.
C4_RobotsDecision ==
    \A r \in Requests :
        robots_response[r].kind = "http" =>
            LET status == robots_response[r].status
                url == Fetch(arguments[r]).url
                rules == StripCommentLines(robots_response[r].text)
            IN  /\ RobotsDenied(r) \/ RobotsPassed(r)
                /\ ~(RobotsDenied(r) /\ RobotsPassed(r))
                /\ IF status \in {401, 403}
                   THEN RobotsDenied(r) /\ outcome[r].reason = "status"
                   ELSE IF status \in 400..499
                   THEN RobotsPassed(r)
                   ELSE RobotsDenied(r) <=> ~can_fetch(rules, url, user_agent_autonomous)

\* robots.txt answered 401 with a body that allows everything, and the call failed
C4_Witness ==
    \E r \in Requests :
        /\ robots_response[r].kind = "http"
        /\ robots_response[r].status = 401
        /\ robots_response[r].text = AllowAllTxt
        /\ RobotsDenied(r)

RobotsFatal(r) ==
    /\ robots_response[r].kind # "none"
    /\ RobotsVerdict(robots_response[r], Fetch(arguments[r]).url, user_agent_autonomous)
          # "allowed"

ResourceFatal(r) ==
    \/ response[r].kind = "error"
    \/ response[r].kind = "http" /\ response[r].status >= 400

Fatal(r) == RobotsFatal(r) \/ ResourceFatal(r)

\* what every fatal error does, whoever the handler is: the request is over, no
\* step follows the failed one, no GET was issued twice, no page content comes back
Aborted(r) ==
    /\ Finished(r)
    /\ RobotsFatal(r) => GetsFor(r, "resource") = {}
    /\ Cardinality(GetsFor(r, "robots")) <= 1
    /\ Cardinality(GetsFor(r, "resource")) <= 1
    /\ outcome[r].page = <<>>
    /\ outcome[r].content = <<>>
    /\ outcome[r].prefix = <<>>

\* C5 as stated: every fatal error aborts the request and the caller receives a
\* structured error, never a successful result.
C5_FatalIsStructuredError ==
    \A r \in Requests :
        Fatal(r) => (Aborted(r) /\ pc[r] = "raised" /\ outcome[r].kind = "error")

\* C5 as amended: every fatal error aborts the request: no later step runs, no GET is
\* issued twice and no page content is returned; a fetch tool call then raises a
\* structured INTERNAL_ERROR; a get_prompt call returns a prompt result described
\* "Failed to fetch" that carries the error; a request without a fatal error that
\* got its page returns content.
C5_FatalAborts ==
    \A r \in Requests :
        /\ Fatal(r) =>
              /\ Aborted(r)
              /\ handler[r] = "call_tool" =>
                    /\ pc[r] = "raised"
                    /\ outcome[r].kind = "error"
                    /\ outcome[r].code = "INTERNAL_ERROR"
              /\ handler[r] = "get_prompt" =>
                    /\ pc[r] = "returned"
                    /\ outcome[r].kind = "prompt"
                    /\ outcome[r].description = "Failed to fetch"
                    /\ outcome[r].code = "INTERNAL_ERROR"
        /\ (~Fatal(r) /\ response[r].kind = "http") =>
              /\ pc[r] = "returned"
              /\ outcome[r].kind \in {"result", "prompt"}
              /\ outcome[r].description = "Contents of"

\* a tool call that failed on the page's status beside a prompt that failed too
C5_Witness ==
    \E r, q \in Requests :
        /\ handler[r] = "call_tool" /\ ResourceFatal(r) /\ pc[r] = "raised"
        /\ handler[q] = "get_prompt" /\ ResourceFatal(q) /\ pc[q] = "returned"

\* "<html" starts at one of the first HtmlSniffLen characters and ends there too
HtmlTagInHead(text) ==
    \E i \in 1..Len(text) :
        /\ i + Len(HtmlTag) - 1 <= HtmlSniffLen
        /\ i + Len(HtmlTag) - 1 <= Len(text)
        /\ \A k \in 1..Len(HtmlTag) : text[i + k - 1] = HtmlTag[k]

HtmlTagAnywhere(text) ==
    \E i \in 1..Len(text) :
        /\ i + Len(HtmlTag) - 1 <= Len(text)
        /\ \A k \in 1..Len(HtmlTag) : text[i + k - 1] = HtmlTag[k]

ClassifiedHtml(resp) ==
    \/ HtmlTagInHead(resp.text)
    \/ (resp.has_content_type /\ Contains(resp.content_type, TextHtml))
    \/ ~resp.has_content_type
    \/ resp.content_type = <<>>

\* C6: a page answered with a status below 400 is classified HTML if and only if
\* "<html" lies within its first 100 characters, or its content-type contains
\* "text/html", or its content-type is absent or empty.
C6_HtmlClassification ==
    \A r \in Requests :
        Fetched(r) => (outcome[r].is_page_html <=> ClassifiedHtml(response[r]))

\* a page whose only "<html" begins after character 100, with a content-type that is
\* neither empty nor text/html, was classified as not HTML
C6_Witness ==
    \E r \in Requests :
        /\ Fetched(r)
        /\ HtmlTagAnywhere(response[r].text)
        /\ ~HtmlTagInHead(response[r].text)
        /\ response[r].has_content_type
        /\ response[r].content_type = AppJson
        /\ ~outcome[r].is_page_html

ForceRaw(r) == handler[r] = "call_tool" /\ Fetch(arguments[r]).raw

\* C7: after a successful fetch, the page was simplified if and only if it was
\* classified HTML and the request did not set raw; a simplified page has the empty
\* prefix; any other page is the response body unchanged, under the non-empty
\* "cannot be simplified" notice that names its content type.
C7_SimplifyIffHtmlAndNotRaw ==
    \A r \in Requests :
        Fetched(r) =>
            /\ outcome[r].simplified <=> (outcome[r].is_page_html /\ ~ForceRaw(r))
            /\ outcome[r].simplified =>
                  /\ outcome[r].prefix = <<>>
                  /\ outcome[r].page = extract_content_from_html(response[r].text)
            /\ ~outcome[r].simplified =>
                  /\ outcome[r].page = response[r].text
                  /\ outcome[r].prefix # <<>>
                  /\ outcome[r].prefix =
                        RawNoticeHead \o ContentTypeOf(response[r]) \o RawNoticeTail

\* an HTML page fetched with raw set: the body went to the window as it was
C7_Witness ==
    \E r \in Requests :
        /\ Fetched(r)
        /\ ForceRaw(r)
        /\ outcome[r].is_page_html
        /\ ~outcome[r].simplified
        /\ response[r].text # <<>>
        /\ outcome[r].page = response[r].text

InvalidArguments(a) ==
    \/ a.url_kind # "url"
    \/ a.has_max_length /\ (a.max_length <= 0 \/ a.max_length >= 1000000)
    \/ a.has_start_index /\ a.start_index < 0

\* C8: a fetch tool call with a missing or malformed url, a max_length <= 0 or
\* >= 1000000, or a start_index < 0 raises INVALID_PARAMS and issues no GET.
C8_InvalidArgumentsNoNetwork ==
    \A r \in Requests :
        (handler[r] = "call_tool" /\ InvalidArguments(arguments[r])) =>
            /\ pc[r] = "raised"
            /\ outcome[r].kind = "error"
            /\ outcome[r].code = "INVALID_PARAMS"
            /\ net[r] = <<>>

\* a call with max_length = 1000000 was refused
C8_Witness ==
    \E r \in Requests :
        /\ handler[r] = "call_tool"
        /\ arguments[r].url_kind = "url"
        /\ arguments[r].max_length = 1000000
        /\ pc[r] = "raised"

Inputs(r) == <<handler[r], arguments[r], robots_response[r], response[r]>>

Local(r) == <<pc[r], net[r], outcome[r]>>

\* two requests with the same arguments and the same answers to their own GETs are
\* in the same place, have issued the same GETs and have the same result
SameInputsSameResult ==
    \A r, q \in Requests : Inputs(r) = Inputs(q) => Local(r) = Local(q)

\* a step belongs to one request, leaves every other request as it was and writes
\* neither the user-agent configuration nor the enforcement flag
StepIsLocal ==
    /\ UNCHANGED configVars
    /\ \E r \in Requests :
          \A q \in Requests \ {r} :
              /\ Inputs(q)' = Inputs(q)
              /\ Local(q)' = Local(q)

\* C9: with several requests in flight, interleaving at their GETs, the state and
\* the result of a request are determined by its own arguments and the answers to
\* its own GETs; a step of one request changes nothing of another; the user-agent
\* configuration and the enforcement flag are never written after startup.
C9_RequestsIndependent == []SameInputsSameResult /\ [][StepIsLocal]_vars

\* one request has returned while another, called with the same arguments, waits
\* for its page
C9_Witness ==
    \E r, q \in Requests :
        /\ r # q
        /\ handler[r] = "call_tool" /\ pc[r] = "returned"
        /\ handler[q] = "call_tool" /\ pc[q] = "resource_get"
        /\ arguments[r] = arguments[q]

\* C10: a client that starts at start_index 0 on a non-empty document and follows
\* each hint never makes more than ceil(len/max_length) calls, never gets the "No
\* more content" sentinel, has a hint to follow (and can follow it) before that many
\* calls and none at that many, and has then received the document exactly, slice
\* after slice.
C10_PagingComplete ==
    (pgChain /\ pgCalls > 0 /\ Len(pgContent) > 0) =>
        LET calls == Ceil(Len(pgContent), pgMaxLength)
        IN  /\ pgCalls <= calls
            /\ pgOut # NoMoreContent
            /\ pgStart = (pgCalls - 1) * pgMaxLength
            /\ HasHint(pgOut) <=> pgCalls < calls
            /\ HasHint(pgOut) => ENABLED FollowHint
            /\ pgCalls = calls => pgSlices = pgContent

\* a session of at least three calls whose last slice was shorter than max_length
C10_Witness ==
    /\ pgChain
    /\ pgCalls >= 3
    /\ ~HasHint(pgOut)
    /\ Len(pgOut) < pgMaxLength
    /\ pgSlices = pgContent

=============================================================================
